---- MODULE Spec2Model ----
(***************************************************************************)
(* Model of src/main.py: the review store (get_reviews_dict,               *)
(* fetch_restaurant_data) and the score calculator                         *)
(* (calculate_overall_score).                                              *)
(*                                                                         *)
(* A Python str is a sequence of one-character strings.  A character       *)
(* outside ASCII is written by its code point ("U+0130").  A Python float  *)
(* is a fixed-point number (see FracDigits).                               *)
(***************************************************************************)
EXTENDS Integers, Sequences, FiniteSets, TLC

VARIABLES
    file,   \* restaurant-data.txt: [exists |-> BOOLEAN, content |-> str]
    reads,  \* how many times restaurant-data.txt has been opened
    input,  \* the arguments the caller holds for its next call
    last    \* the last call made to the module, with its outcome

vars == <<file, reads, input, last>>

(***************************************************************************)
(* Bounds of the model.                                                    *)
(***************************************************************************)
MaxFileLen == 6
MaxReads == 2
MaxNameLen == 3
MaxScores == 2

(***************************************************************************)
(* Python str operations used by get_reviews_dict.                         *)
(***************************************************************************)
Range(s) == {s[i] : i \in 1..Len(s)}

UpperCase == <<"A", "B", "C", "D", "E", "F", "G", "H", "I", "J", "K", "L", "M",
               "N", "O", "P", "Q", "R", "S", "T", "U", "V", "W", "X", "Y", "Z">>

LowerCase == <<"a", "b", "c", "d", "e", "f", "g", "h", "i", "j", "k", "l", "m",
               "n", "o", "p", "q", "r", "s", "t", "u", "v", "w", "x", "y", "z">>

Digits == {"0", "1", "2", "3", "4", "5", "6", "7", "8", "9"}

\* The characters str.strip() removes (those of them the model draws).
Whitespace == {" ", "\t", "\n", "\r", "\f"}

\* str.lower() of one character.  U+0130 is the one character whose lower
\* case is two characters (i, U+0307); U+00C9 stands for the letters
\* outside ASCII, whose lower case is again outside ASCII.
CharLower(c) ==
    IF c \in Range(UpperCase)
    THEN <<LowerCase[CHOOSE i \in 1..Len(UpperCase) : UpperCase[i] = c]>>
    ELSE IF c = "U+0130" THEN <<"i", "U+0307">>
    ELSE IF c = "U+00C9" THEN <<"U+00E9">>
    ELSE <<c>>

RECURSIVE LowerFrom(_, _)
LowerFrom(s, i) ==
    IF i > Len(s) THEN <<>> ELSE CharLower(s[i]) \o LowerFrom(s, i + 1)

\* restaurant.lower()
lower(s) == LowerFrom(s, 1)

\* The class [0-9a-zA-Z].
IsAlnum(c) == c \in Digits \cup Range(UpperCase) \cup Range(LowerCase)

\* re.sub("[^0-9a-zA-Z]", " ", restaurant)
re_sub(s) == [i \in 1..Len(s) |-> IF IsAlnum(s[i]) THEN s[i] ELSE " "]

\* The two statements that turn a raw name into a key.
Normalize(name) == re_sub(lower(name))

RECURSIVE LStrip(_)
LStrip(s) ==
    IF s = <<>> \/ Head(s) \notin Whitespace THEN s ELSE LStrip(Tail(s))

RECURSIVE RStrip(_)
RStrip(s) ==
    IF s = <<>> \/ s[Len(s)] \notin Whitespace
    THEN s
    ELSE RStrip(SubSeq(s, 1, Len(s) - 1))

\* line.strip()
strip(s) == RStrip(LStrip(s))

\* The index of the first c in s, 0 when there is none.
Find(s, c) ==
    IF \E i \in 1..Len(s) : s[i] = c
    THEN CHOOSE i \in 1..Len(s) : s[i] = c /\ \A j \in 1..(i - 1) : s[j] # c
    ELSE 0

\* s.rsplit(".", 1): split at the last "." instead of the first.
rsplit(s) ==
    IF Find(s, ".") = 0
    THEN <<s>>
    ELSE LET i == CHOOSE i \in 1..Len(s) :
                      s[i] = "." /\ \A j \in (i + 1)..Len(s) : s[j] # "."
         IN  <<SubSeq(s, 1, i - 1), SubSeq(s, i + 1, Len(s))>>

\* s.split(".", 1): one part when s has no ".", else the text before the
\* first "." and the text after it.
split(s) ==
    IF Find(s, ".") = 0
    THEN <<s>>
    ELSE <<SubSeq(s, 1, Find(s, ".") - 1), SubSeq(s, Find(s, ".") + 1, Len(s))>>

\* for line in f: the lines of the content, each with its "\n" when it has one.
RECURSIVE readlines(_)
readlines(content) ==
    IF content = <<>> THEN <<>>
    ELSE IF Find(content, "\n") = 0 THEN <<content>>
    ELSE <<SubSeq(content, 1, Find(content, "\n"))>>
         \o readlines(SubSeq(content, Find(content, "\n") + 1, Len(content)))

(***************************************************************************)
(* Outcomes of a call.                                                     *)
(***************************************************************************)
Return(v) == [kind |-> "return", value |-> v]

Raise(e) == [kind |-> "raise", exc |-> e]

NoCall == [op |-> "none"]

NoInput == [op |-> "none"]

(***************************************************************************)
(* get_reviews_dict                                                        *)
(***************************************************************************)
\* dict_add that puts a later review in front of the earlier ones.
dict_add_prepend(d, restaurant, review) ==
    IF restaurant \in DOMAIN d
    THEN [d EXCEPT ![restaurant] = <<review>> \o @]
    ELSE (restaurant :> <<review>>) @@ d

\* if restaurant not in data_dict: ... else: ...append(review)
dict_add(d, restaurant, review) ==
    IF restaurant \in DOMAIN d
    THEN [d EXCEPT ![restaurant] = Append(@, review)]
    ELSE (restaurant :> <<review>>) @@ d

\* ReadLoop that skips a line without a "." instead of failing on it.
RECURSIVE ReadLoopSkipping(_, _)
ReadLoopSkipping(lines, data_dict) ==
    IF lines = <<>> THEN Return(data_dict)
    ELSE LET parts == split(strip(Head(lines)))
         IN  IF Len(parts) # 2
             THEN ReadLoopSkipping(Tail(lines), data_dict)
             ELSE ReadLoopSkipping(Tail(lines),
                                   dict_add(data_dict, Normalize(parts[1]), parts[2]))

\* The body of the for loop, over the lines still to read.
RECURSIVE ReadLoop(_, _)
ReadLoop(lines, data_dict) ==
    IF lines = <<>> THEN Return(data_dict)
    ELSE LET parts == split(strip(Head(lines)))
         IN  IF Len(parts) # 2
             THEN Raise("ValueError")
             ELSE ReadLoop(Tail(lines),
                           dict_add(data_dict, Normalize(parts[1]), parts[2]))

\* get_reviews_dict that answers a missing file with an empty store.
get_reviews_dict_empty_on_missing(f) ==
    IF ~f.exists THEN Return(<<>>) ELSE ReadLoop(readlines(f.content), <<>>)

get_reviews_dict(f) ==
    IF ~f.exists
    THEN [kind |-> "raise", exc |-> "SystemExit", stdout |-> "File not found"]
    ELSE ReadLoop(readlines(f.content), <<>>)

\* fetch_restaurant_data written with dict.get(restaurant_name, []).
fetch_restaurant_data_get(f, restaurant_name) ==
    LET d == get_reviews_dict(f)
    IN  IF d.kind = "raise" THEN d
        ELSE IF restaurant_name \notin DOMAIN d.value THEN Return(<<>>)
        ELSE Return(d.value[restaurant_name])

\* return get_reviews_dict()[restaurant_name]
fetch_restaurant_data(f, restaurant_name) ==
    LET d == get_reviews_dict(f)
    IN  IF d.kind = "raise" THEN d
        ELSE IF restaurant_name \notin DOMAIN d.value THEN Raise("KeyError")
        ELSE Return(d.value[restaurant_name])

(***************************************************************************)
(* calculate_overall_score.  A float x is the integer part of              *)
(* x * 10^FracDigits; a quotient of two floats is kept as the pair of its  *)
(* numerator and denominator until it is rounded.                          *)
(***************************************************************************)
\* Decimal digits kept after the point of a float.
FracDigits == 6

\* The integer part p of sqrt(n * 100^k), with the remainder n * 100^k - p*p,
\* digit by digit.
RECURSIVE SqrtRec(_, _)
SqrtRec(n, k) ==
    IF k = 0
    THEN LET r == CHOOSE r \in 0..n : r * r <= n /\ (r + 1) * (r + 1) > n
         IN  [p |-> r, rem |-> n - r * r]
    ELSE LET prev == SqrtRec(n, k - 1)
             d == CHOOSE d \in 0..9 :
                      /\ (20 * prev.p + d) * d <= prev.rem * 100
                      /\ d < 9 => (20 * prev.p + d + 1) * (d + 1) > prev.rem * 100
         IN  [p |-> 10 * prev.p + d, rem |-> prev.rem * 100 - (20 * prev.p + d) * d]

\* The largest argument the score formula takes a root of: 5 ** 2 * 5.
MaxRadicand == 125

SqrtTable == [n \in 0..MaxRadicand |-> SqrtRec(n, FracDigits).p]

\* math.sqrt(n)
math_sqrt(n) == SqrtTable[n]

\* round(num / den, 3), in thousandths: to the nearest, a tie to the even one.
round3(num, den) ==
    LET q0 == num \div den
        r0 == num % den
        d1 == (r0 * 10) \div den
        r1 == (r0 * 10) % den
        d2 == (r1 * 10) \div den
        r2 == (r1 * 10) % den
        d3 == (r2 * 10) \div den
        r3 == (r2 * 10) % den
        down == q0 * 1000 + d1 * 100 + d2 * 10 + d3
    IN  IF 2 * r3 > den \/ (2 * r3 = den /\ down % 2 = 1)
        THEN down + 1
        ELSE down

\* for i in range(N): sum_val += math.sqrt((food_scores[i] ** 2) * ...[i])
RECURSIVE sum_val(_, _, _)
sum_val(food_scores, customer_service_scores, i) ==
    IF i = 0 THEN 0
    ELSE sum_val(food_scores, customer_service_scores, i - 1)
         + math_sqrt((food_scores[i] * food_scores[i]) * customer_service_scores[i])

\* raise ValueError("... must be of the same length."): the text, and the
\* values formatted into it (none).
LengthError ==
    [kind |-> "raise", exc |-> "ValueError",
     text |-> "food_scores and customer_service_scores must be of the same length.",
     values |-> <<>>]

\* calculate_overall_score that pairs the scores up to the shorter list.
calculate_overall_score_truncating(restaurant_name, food_scores, customer_service_scores) ==
    LET N == IF Len(food_scores) < Len(customer_service_scores)
             THEN Len(food_scores) ELSE Len(customer_service_scores)
    IN  IF N = 0
        THEN [out |-> Return(restaurant_name :> 0), terms |-> 0]
        ELSE [out |-> Return(restaurant_name :>
                          round3(sum_val(food_scores, customer_service_scores, N) * 10,
                                 N * math_sqrt(MaxRadicand))),
              terms |-> N]

\* calculate_overall_score whose scale leaves out the division by N.
calculate_overall_score_unscaled(restaurant_name, food_scores, customer_service_scores) ==
    LET N == Len(food_scores)
    IN  IF Len(food_scores) # Len(customer_service_scores)
        THEN [out |-> LengthError, terms |-> 0]
        ELSE IF N = 0
        THEN [out |-> Return(restaurant_name :> 0), terms |-> 0]
        ELSE [out |-> Return(restaurant_name :>
                          round3(sum_val(food_scores, customer_service_scores, N) * 10,
                                 math_sqrt(MaxRadicand))),
              terms |-> N]

\* The outcome, and the number of terms of the sum that were computed.
calculate_overall_score(restaurant_name, food_scores, customer_service_scores) ==
    LET N == Len(food_scores)
    IN  IF Len(food_scores) # Len(customer_service_scores)
        THEN [out |-> LengthError, terms |-> 0]
        ELSE IF N = 0
        THEN [out |-> Return(restaurant_name :> 0), terms |-> 0]
        ELSE [out |-> Return(restaurant_name :>
                          round3(sum_val(food_scores, customer_service_scores, N) * 10,
                                 N * math_sqrt(MaxRadicand))),
              terms |-> N]

(***************************************************************************)
(* Inputs.                                                                 *)
(***************************************************************************)
RECURSIVE StringsOver(_, _)
StringsOver(alphabet, n) ==
    IF n = 0 THEN {<<>>}
    ELSE LET shorter == StringsOver(alphabet, n - 1)
         IN  shorter \cup {Append(s, c) : s \in shorter, c \in alphabet}

FileChars == {"A", ".", " ", "\n"}

Files ==
    {[exists |-> FALSE, content |-> <<>>]}
    \cup {[exists |-> TRUE, content |-> s] : s \in StringsOver(FileChars, MaxFileLen)}

ScoreValues == 1..5

ScoreLists == StringsOver(ScoreValues, MaxScores)

ScoreNames == {<<"x">>, <<"J", "o", "e", "'", "s">>}

ScoreInputs ==
    {[op |-> "calculate_overall_score", restaurant_name |-> n,
      food_scores |-> f, customer_service_scores |-> c] :
        n \in ScoreNames, f \in ScoreLists, c \in ScoreLists}

NameChars == {"a", "B", "1", " ", "'", ".", "U+0130", "U+00C9"}

NameInputs ==
    {[op |-> "normalize", name |-> s] : s \in StringsOver(NameChars, MaxNameLen)}

JoeLine1 ==
    <<"J", "o", "e", "'", "s", " ", "D", "i", "n", "e", "r", ".", "F", "o",
      "o", "d", " ", "w", "a", "s", " ", "b", "a", "d", ".">>

JoeLine2 ==
    <<"J", "o", "e", "'", "s", " ", "D", "i", "n", "e", "r", ".", "S", "e",
      "r", "v", "i", "c", "e", " ", "w", "a", "s", " ", "g", "o", "o", "d",
      ".">>

AppleLine ==
    <<"A", "p", "p", "l", "e", "b", "e", "e", "'", "s", ".", " ", "T", "h",
      "e", " ", "f", "o", "o", "d", " ", "w", "a", "s", " ", "a", "v", "e",
      "r", "a", "g", "e", ".">>

JoeKey ==
    <<"j", "o", "e", " ", "s", " ", "d", "i", "n", "e", "r">>

JoeName ==
    <<"J", "o", "e", "'", "s", " ", "D", "i", "n", "e", "r">>

AppleKey ==
    <<"a", "p", "p", "l", "e", "b", "e", "e", " ", "s">>

Text(s) == [exists |-> TRUE, content |-> s]

\* The file of the worked example: two reviews of one restaurant.
JoeFile == Text(JoeLine1 \o <<"\n">> \o JoeLine2)

SampleFiles ==
    { [exists |-> FALSE, content |-> <<>>],
      JoeFile,
      Text(JoeLine2 \o <<"\n">> \o JoeLine1 \o <<"\n">>),
      Text(JoeLine1 \o <<"\n">> \o AppleLine \o <<"\n">> \o JoeLine2 \o <<"\n">>),
      Text(AppleLine \o <<"\n">>) }

SampleKeys == {JoeKey, JoeName, AppleKey}

ScoreCall(n, f, c) ==
    [op |-> "calculate_overall_score", restaurant_name |-> n,
     food_scores |-> f, customer_service_scores |-> c]

SampleInputs ==
    { ScoreCall(AppleKey, <<1, 2, 3, 4, 5>>, <<1, 2, 3, 4, 5>>),
      ScoreCall(<<"x">>, <<5, 5, 5>>, <<5, 5, 5>>),
      ScoreCall(<<"x">>, <<1, 2>>, <<1>>),
      ScoreCall(<<"x">>, <<>>, <<>>),
      [op |-> "normalize", name |-> JoeName] }

LookupKeys == {<<"a">>, <<"A">>, <<" ", "a">>, <<>>}

(***************************************************************************)
(* Actions.                                                                *)
(***************************************************************************)
GetReviewsDict ==
    /\ reads < MaxReads
    /\ reads' = reads + 1
    /\ last' = [op |-> "get_reviews_dict", file |-> file,
                out |-> get_reviews_dict(file)]
    /\ UNCHANGED <<file, input>>

FetchRestaurantData(restaurant_name) ==
    /\ reads < MaxReads
    /\ reads' = reads + 1
    /\ last' = [op |-> "fetch_restaurant_data", file |-> file,
                restaurant_name |-> restaurant_name,
                out |-> fetch_restaurant_data(file, restaurant_name)]
    /\ UNCHANGED <<file, input>>

\* restaurant = restaurant.lower(); restaurant = re.sub(...), on the name held.
NormalizeName ==
    /\ input.op = "normalize"
    /\ last' = [op |-> "normalize", name |-> input.name, key |-> Normalize(input.name)]
    /\ UNCHANGED <<file, reads, input>>

\* calculate_overall_score on the arguments held.
CalculateOverallScore ==
    /\ input.op = "calculate_overall_score"
    /\ last' = [op |-> "calculate_overall_score", args |-> input,
                run |-> calculate_overall_score(input.restaurant_name, input.food_scores,
                                                input.customer_service_scores)]
    /\ UNCHANGED <<file, reads, input>>

\* restaurant-data.txt is replaced, or removed, between two calls.
ReplaceFile(new) ==
    /\ new # file
    /\ file' = new
    /\ UNCHANGED <<reads, input, last>>

(***************************************************************************)
(* The module as its caller uses it: lookups and scores in any order, over *)
(* the files of the worked examples, which may change between two calls.   *)
(***************************************************************************)
Init ==
    /\ file \in SampleFiles
    /\ reads = 0
    /\ input \in SampleInputs
    /\ last = NoCall

Next ==
    \/ GetReviewsDict
    \/ \E k \in SampleKeys : FetchRestaurantData(k)
    \/ NormalizeName
    \/ CalculateOverallScore
    \/ \E new \in SampleFiles : ReplaceFile(new)

Spec == Init /\ [][Next]_vars

(***************************************************************************)
(* The review store over every small file.                                 *)
(***************************************************************************)
InitBuild ==
    /\ file \in Files
    /\ reads = 0
    /\ input = NoInput
    /\ last = NoCall

NextBuild ==
    \/ GetReviewsDict
    \/ \E k \in LookupKeys : FetchRestaurantData(k)

SpecBuild == InitBuild /\ [][NextBuild]_vars

(***************************************************************************)
(* The normalization over every short name.                                *)
(***************************************************************************)
InitNormalize ==
    /\ file = [exists |-> FALSE, content |-> <<>>]
    /\ reads = 0
    /\ input \in NameInputs
    /\ last = NoCall

NextNormalize == NormalizeName

SpecNormalize == InitNormalize /\ [][NextNormalize]_vars

(***************************************************************************)
(* The score calculator over every pair of short score lists.              *)
(***************************************************************************)
InitScore ==
    /\ file = [exists |-> FALSE, content |-> <<>>]
    /\ reads = 0
    /\ input \in ScoreInputs
    /\ last = NoCall

NextScore == CalculateOverallScore

SpecScore == InitScore /\ [][NextScore]_vars

(***************************************************************************)
(* What the claims say of a file, stated from the file's text.             *)
(***************************************************************************)
LinesOf(f) == readlines(f.content)

HasDot(line) == "." \in Range(line)

\* Every line of the file contains a ".".
WellFormed(f) == f.exists /\ \A i \in 1..Len(LinesOf(f)) : HasDot(LinesOf(f)[i])

\* The text before the first "." of a line.
NameOf(line) == SubSeq(line, 1, Find(line, ".") - 1)

\* The text after the first "." of a line, without the line's end.
BodyOf(line) == RStrip(SubSeq(line, Find(line, ".") + 1, Len(line)))

RawKey(line) == Normalize(NameOf(line))

StrippedKey(line) == Normalize(LStrip(NameOf(line)))

\* The lines of f whose key, taken by KeyOf, is k.
LinesWithKey(f, k, KeyOf(_)) ==
    {i \in 1..Len(LinesOf(f)) : HasDot(LinesOf(f)[i]) /\ KeyOf(LinesOf(f)[i]) = k}

\* Store d holds, under each of its keys, one entry per line of f with that
\* key, in file order; no key is without a line.
StoreMatches(f, d, KeyOf(_)) ==
    \A k \in DOMAIN d :
        LET S == LinesWithKey(f, k, KeyOf)
        IN  /\ d[k] # <<>>
            /\ S # {}
            /\ Len(d[k]) = Cardinality(S)
            /\ \A i \in S :
                   d[k][Cardinality({j \in S : j <= i})] = BodyOf(LinesOf(f)[i])

Built == last.op = "get_reviews_dict"

Fetched == last.op = "fetch_restaurant_data"

\* C1 as stated: built from a file whose lines all contain a ".", the store
\* maps every key to a non-empty sequence, every key is the normalization of
\* the text before the first "." of some line, and a key's sequence holds one
\* entry per line whose name normalizes to it, in file order.
C1_KeysFromRawNames ==
    (Built /\ WellFormed(last.file)) =>
        /\ last.out.kind = "return"
        /\ StoreMatches(last.file, last.out.value, RawKey)

\* C1 amended: as C1, with the name of a line being the text before its first
\* "." without the line's leading whitespace (the line is stripped before it
\* is split).
C1_KeysFromStrippedNames ==
    (Built /\ WellFormed(last.file)) =>
        /\ last.out.kind = "return"
        /\ StoreMatches(last.file, last.out.value, StrippedKey)

\* A store with two different entries under one key, built from a file with
\* a line that starts with whitespace.
C1_Witness ==
    /\ Built /\ WellFormed(last.file)
    /\ last.out.kind = "return"
    /\ \E k \in DOMAIN last.out.value :
           /\ Len(last.out.value[k]) >= 2
           /\ last.out.value[k][1] # last.out.value[k][2]
    /\ \E i \in 1..Len(LinesOf(last.file)) :
           LStrip(NameOf(LinesOf(last.file)[i])) # NameOf(LinesOf(last.file)[i])

\* C3 as stated: every stored review neither starts nor ends with a
\* whitespace character.
C3_ReviewsTrimmed ==
    (Built /\ last.out.kind = "return") =>
        \A k \in DOMAIN last.out.value :
            \A j \in 1..Len(last.out.value[k]) :
                LET review == last.out.value[k][j]
                IN  review # <<>> =>
                        /\ Head(review) \notin Whitespace
                        /\ review[Len(review)] \notin Whitespace

\* The keys of the lines of f that contain a ".".
StoreKeys(f) ==
    {StrippedKey(LinesOf(f)[i]) :
        i \in {j \in 1..Len(LinesOf(f)) : HasDot(LinesOf(f)[j])}}

\* C4: fetch_restaurant_data with a key that is not in the built store fails
\* with KeyError, and never returns a value.
C4_UnknownKeyRaises ==
    (Fetched /\ last.restaurant_name \notin StoreKeys(last.file)) =>
        /\ last.out.kind = "raise"
        /\ WellFormed(last.file) => last.out = Raise("KeyError")

\* A lookup by a raw name whose normalization is a key of the store.
C4_Witness ==
    /\ Fetched /\ WellFormed(last.file)
    /\ last.restaurant_name \notin StoreKeys(last.file)
    /\ Normalize(last.restaurant_name) \in StoreKeys(last.file)
    /\ last.out = Raise("KeyError")

\* C8: with the data file absent, get_reviews_dict reports "File not found"
\* and exits the process; neither it nor fetch_restaurant_data returns.
C8_MissingFileExits ==
    ((Built \/ Fetched) /\ ~last.file.exists) =>
        /\ last.out.kind = "raise"
        /\ last.out.exc = "SystemExit"
        /\ last.out.stdout = "File not found"

\* A lookup made while the data file is absent.
C8_Witness ==
    /\ Fetched /\ ~last.file.exists
    /\ last.out.kind = "raise" /\ last.out.exc = "SystemExit"

\* Some line of f contains no ".".
Malformed(f) ==
    f.exists /\ \E i \in 1..Len(LinesOf(f)) : ~HasDot(LinesOf(f)[i])

\* C10: a line without a "." fails the whole build with ValueError, which the
\* FileNotFoundError handler does not catch; no store is returned and the
\* error leaves fetch_restaurant_data.
C10_MalformedLineFails ==
    ((Built \/ Fetched) /\ Malformed(last.file)) =>
        last.out = Raise("ValueError")

\* A lookup of the key of a well-formed first line, in a file whose second
\* line is empty.
C10_Witness ==
    /\ Fetched /\ Malformed(last.file)
    /\ Len(LinesOf(last.file)) >= 2
    /\ HasDot(LinesOf(last.file)[1])
    /\ strip(LinesOf(last.file)[2]) = <<>>
    /\ last.restaurant_name = StrippedKey(LinesOf(last.file)[1])
    /\ last.out = Raise("ValueError")

\* C2 as stated: built from the two Joe's Diner lines, the store maps
\* "joe s diner" to ["Food was bad", "Service was good"].
C2_JoeReviewsWithoutPeriod ==
    ((Built \/ Fetched) /\ last.file = JoeFile) =>
        LET reviews ==
                << <<"F", "o", "o", "d", " ", "w", "a", "s", " ", "b", "a", "d">>,
                   <<"S", "e", "r", "v", "i", "c", "e", " ", "w", "a", "s", " ",
                     "g", "o", "o", "d">> >>
        IN  /\ Built => last.out = Return(JoeKey :> reviews)
            /\ (Fetched /\ last.restaurant_name = JoeKey) => last.out = Return(reviews)

\* C2 amended: built from the two Joe's Diner lines, the store maps
\* "joe s diner", its only key, to ["Food was bad.", "Service was good."]:
\* the first period of a line splits the name from the review, and the review
\* keeps its own final period.
C2_JoeReviewsKeepPeriod ==
    ((Built \/ Fetched) /\ last.file = JoeFile) =>
        LET reviews ==
                << <<"F", "o", "o", "d", " ", "w", "a", "s", " ", "b", "a", "d", ".">>,
                   <<"S", "e", "r", "v", "i", "c", "e", " ", "w", "a", "s", " ",
                     "g", "o", "o", "d", ".">> >>
        IN  /\ Built => last.out = Return(JoeKey :> reviews)
            /\ (Fetched /\ last.restaurant_name = JoeKey) => last.out = Return(reviews)

\* A lookup of "joe s diner" in the two Joe's Diner lines that returns.
C2_Witness ==
    /\ Fetched /\ last.file = JoeFile
    /\ last.restaurant_name = JoeKey
    /\ last.out.kind = "return"
    /\ Len(last.out.value) = 2

Scored == last.op = "calculate_overall_score"

\* C5 as stated: with lists of unequal lengths calculate_overall_score fails
\* with a ValueError that names both lengths, before any term of the sum is
\* computed.
C5_LengthErrorNamesLengths ==
    (Scored /\ Len(last.args.food_scores) # Len(last.args.customer_service_scores)) =>
        /\ last.run.out.kind = "raise"
        /\ last.run.out.exc = "ValueError"
        /\ Len(last.args.food_scores) \in Range(last.run.out.values)
        /\ Len(last.args.customer_service_scores) \in Range(last.run.out.values)
        /\ last.run.terms = 0

\* C5 amended: with lists of unequal lengths calculate_overall_score fails
\* with a ValueError whose message is a fixed text that names no length,
\* before any term of the sum is computed; no mapping is returned.
C5_LengthErrorFixedText ==
    (Scored /\ Len(last.args.food_scores) # Len(last.args.customer_service_scores)) =>
        /\ last.run.out.kind = "raise"
        /\ last.run.out.exc = "ValueError"
        /\ last.run.out.values = <<>>
        /\ last.run.terms = 0

\* A call with an empty list and a non-empty one.
C5_Witness ==
    /\ Scored
    /\ last.args.food_scores # <<>>
    /\ last.args.customer_service_scores = <<>>
    /\ last.run.out.kind = "raise"

\* C6: for equal-length lists of integers in 1..5 calculate_overall_score
\* returns a mapping whose one key is the restaurant identifier it was given
\* and whose score is in [0, 10], and is 10.000 when the lists are not empty
\* and every value is 5.
C6_ScoreInRange ==
    (/\ Scored
     /\ Len(last.args.food_scores) = Len(last.args.customer_service_scores)
     /\ Range(last.args.food_scores) \cup Range(last.args.customer_service_scores)
            \subseteq ScoreValues) =>
        /\ last.run.out.kind = "return"
        /\ DOMAIN last.run.out.value = {last.args.restaurant_name}
        /\ last.run.out.value[last.args.restaurant_name] \in 0..10000
        /\ (/\ last.args.food_scores # <<>>
            /\ Range(last.args.food_scores) = {5}
            /\ Range(last.args.customer_service_scores) = {5}) =>
               last.run.out.value[last.args.restaurant_name] = 10000

\* A call with two or more fives in each list, and an identifier with an
\* upper-case letter.
C6_Witness ==
    /\ Scored
    /\ Len(last.args.food_scores) >= 2
    /\ Len(last.args.food_scores) = Len(last.args.customer_service_scores)
    /\ Range(last.args.food_scores) = {5}
    /\ Range(last.args.customer_service_scores) = {5}
    /\ last.args.restaurant_name # Normalize(last.args.restaurant_name)
    /\ last.run.out.kind = "return"

Normalized == last.op = "normalize"

\* C7 as stated: the key of a name holds only lower-case ASCII letters,
\* digits and spaces, is as long as the name, and is its own key.
C7_NormalizeOneForOne ==
    Normalized =>
        /\ Range(last.key) \subseteq Range(LowerCase) \cup Digits \cup {" "}
        /\ Len(last.key) = Len(last.name)
        /\ Normalize(last.key) = last.key

\* C9 as stated: the store is built once, so two lookups of one key that
\* return, one after the other, return the same sequence, whatever happened
\* to the file between them.
C9_LookupsAgree ==
    [][(/\ Fetched /\ Fetched'
        /\ last'.restaurant_name = last.restaurant_name
        /\ last.out.kind = "return" /\ last'.out.kind = "return") =>
           last'.out = last.out]_vars

====
